---- MODULE Spec2Model ----
(***************************************************************************)
(* Model of the z-image-gen asset pipeline.                                *)
(*                                                                         *)
(*   Spec    the installer of generate.py: download_file, find_sd_cli,     *)
(*           check_installation, install and the --check / --install       *)
(*           branches of main, over the files of the installation          *)
(*           directory.                                                    *)
(*   SpecMM  ModelManager of core/model.py: download, get_model_path,      *)
(*           is_downloaded, verify and delete, over the model file and     *)
(*           its '.downloading' temporary file.                            *)
(*                                                                         *)
(* A file is a record [size, total]: size is the number of bytes on disk,  *)
(* total the length of the body it was downloaded from.  A file with       *)
(* size < total holds only part of its download.                           *)
(***************************************************************************)
EXTENDS Integers, FiniteSets, Sequences, TLC

VARIABLES
    fs,          \* generate.py: path -> file, the installation directory
    pc,          \* generate.py: position of main()/install()
    ret,         \* generate.py: how the last install() call ended
    exitcode,    \* generate.py: return value of main(), NoExit while none
    checkResult, \* generate.py: outcome of the last check_installation()
    requested,   \* assets for which this install() issued an HTTP request
    failed,      \* assets whose download or extraction failed in this install()
    skipped,     \* model assets this install() skipped as 'already exists'
    processed,   \* assets whose install step was executed in this install()
    fetched,     \* archives for which download_file returned True in this install()
    extracted,   \* archives whose extraction block ended without error in this install()
    withTarget,  \* archives among them that held their target (sd-cli.exe, cudart_12.dll)
    startOK,     \* check_installation() was True when this install() started
    startEmpty,  \* the installation directory was empty when this install() started
    lastDl,      \* the last download_file call: dest, ret, bytes received
    mmModel,     \* model.py: the file at model_path
    mmTemp,      \* model.py: the file at temp_path ('.downloading')
    mmPc,        \* model.py: position inside download()
    mmDownloaded,\* model.py: local 'downloaded' of download()
    mmTotal,     \* model.py: length of the body being streamed
    mmExc,       \* model.py: exception the last call propagated, "none" if none
    mmStage,     \* model.py: where the last download() ended
    mmBefore,    \* model.py: the file at model_path when download() was called
    mmHttp,      \* model.py: HTTP requests issued by the last call
    mmOp,        \* model.py: the last public call
    mmResult,    \* model.py: what the last is_downloaded()/verify() call gave
    mmCb,        \* model.py: download() was given a progress_callback
    mmHeader,    \* model.py: the response's content-length, NoHeader when omitted
    mmTotalSize, \* model.py: local 'total_size' of download()
    mmCalls,     \* model.py: the (downloaded, total_size) pairs passed to progress_callback
    mmWrites,    \* model.py: number of f.write(chunk) calls of download()
    args,        \* generate.py: the flags main() parsed
    lastGen,     \* generate.py: the last generate() call, NoGen if none
    width,       \* generate.py interactive_mode: the session's image width
    height,      \* generate.py interactive_mode: the session's image height
    generated_count, \* generate.py interactive_mode: its counter
    succeeded,   \* number of generate() calls of the session that returned success
    reported,    \* the count interactive_mode printed, NoCount if none
    loopEnd,     \* why the interactive loop ended, "none" while it has not
    lastLine,    \* the line of the last 'size' command, or the one that ended the loop
    appPc,       \* app.py: "idle", "loop" inside interactive_mode, "ended"
    appEvent,    \* app.py interactive_mode: what Prompt.ask gave last
    count,       \* app.py interactive_mode: its counter
    appSucceeded, \* number of generate_image() calls of the session that saved an image
    appReported, \* the count interactive_mode printed, NoCount if none
    appExit,     \* app.py: exit status of main(), NoExit while none
    engineSeed,  \* the seed last handed to StableDiffusion.generate_image
    outCall,     \* settings.py: the last get_output_path call
    verCall,     \* model.py: the last verify() call of a descriptor with sha256
    dlCall,      \* paths.py, generate.py: the last get_downloads_folder() call
    mgrCall,     \* model.py: the last ModelManager(model_type) call
    sd,          \* generator.py: ZImageGenerator._sd, "None" or "model"
    model_loaded, \* generator.py: ZImageGenerator._model_loaded
    built,       \* StableDiffusion objects constructed since the last unload
    inWith,      \* the generator is used inside a 'with' block
    batchLeft,   \* prompts generate_batch() has still to generate
    zLast        \* the last method of the generator that ended, and how

genvars == <<fs, pc, ret, exitcode, checkResult, requested, failed, skipped,
             processed, fetched, extracted, withTarget, startOK, startEmpty, lastDl>>
mmvars  == <<mmModel, mmTemp, mmPc, mmDownloaded, mmTotal, mmExc, mmStage,
             mmBefore, mmHttp, mmOp, mmResult, mmCb, mmHeader, mmTotalSize,
             mmCalls, mmWrites>>
mmProgress == <<mmCb, mmHeader, mmTotalSize, mmCalls, mmWrites>>
loopvars == <<width, height, generated_count, succeeded, reported, loopEnd, lastLine>>
runvars == <<args, lastGen>>
appvars == <<appPc, appEvent, count, appSucceeded, appReported, appExit,
             engineSeed, outCall, verCall, dlCall, mgrCall>>
zvars   == <<sd, model_loaded, built, inWith, batchLeft, zLast>>
vars    == <<genvars, mmvars, runvars, loopvars, appvars, zvars>>

(***************************************************************************)
(* Sizes.                                                                  *)
(***************************************************************************)
\* install() skips a model file only above this size
MinModelSize == 1000000
\* length of a complete asset body
BodySize == 1500000
\* length of a file far below the threshold, such as an HTML error page
SmallSize == 500

Absent == [size |-> -1, total |-> -1]
File(s, t) == [size |-> s, total |-> t]
Exists(f) == f # Absent
\* the file holds only part of its download
Partial(f) == Exists(f) /\ f.size < f.total

\* bodies a server may deliver
Bodies == {BodySize}
\* byte counts at which a transfer of the body may break
BreakPoints(body) == {n \in {0, SmallSize, MinModelSize, MinModelSize + 1} : n < body}

(***************************************************************************)
(* generate.py: the installation directory.                                *)
(***************************************************************************)
ZipSd     == "sd-cli.zip"
ZipCuda   == "cuda-dlls.zip"
ExeSd     == "bin/sd-cli.exe"
DllCuda   == "bin/cudart_12.dll"
OtherSd   == "bin/<other members of sd-cli.zip>"
OtherCuda == "bin/<other members of cuda-dlls.zip>"
Diffusion == "models/z_image_turbo-Q4_0.gguf"
Vae       == "models/ae.safetensors"
Llm       == "models/Qwen3-4B-Instruct-2507-Q4_K_M.gguf"

ModelPaths   == {Diffusion, Vae, Llm}
ArchivePaths == {ZipSd, ZipCuda}
Paths        == {ZipSd, ZipCuda, ExeSd, DllCuda, OtherSd, OtherCuda} \cup ModelPaths

\* the five install steps, in the order install() runs them
Catalog == <<"sd-cli", "cuda", "diffusion", "vae", "llm">>
Assets  == {Catalog[i] : i \in 1..Len(Catalog)}
ArchiveAssets == {"sd-cli", "cuda"}
ModelAssets   == {"diffusion", "vae", "llm"}
IndexOf(a) == CHOOSE i \in 1..Len(Catalog) : Catalog[i] = a

\* the path an install step downloads to
DestOf(a) ==
    CASE a = "sd-cli"    -> ZipSd
      [] a = "cuda"      -> ZipCuda
      [] a = "diffusion" -> Diffusion
      [] a = "vae"       -> Vae
      [] a = "llm"       -> Llm

\* the path whose existence check_installation() and install() test
TargetOf(a) ==
    CASE a = "sd-cli"    -> ExeSd
      [] a = "cuda"      -> DllCuda
      [] a = "diffusion" -> Diffusion
      [] a = "vae"       -> Vae
      [] a = "llm"       -> Llm

\* the archive members that are not the tested target
OtherOf(a) == IF a = "sd-cli" THEN OtherSd ELSE OtherCuda

\* a file written whole by zipfile.extractall
Member == File(BodySize, BodySize)

NoExit == -1

(***************************************************************************)
(* download_file(url, dest): the outcomes of one call, given the file at   *)
(* dest before the call.  ret is the value returned, or KeyboardInterrupt  *)
(* when the interrupt leaves the function ('except Exception' does not     *)
(* catch it); file is dest afterwards; received the bytes written.         *)
(***************************************************************************)
download_file(old) ==
    \* requests.get or raise_for_status raised: dest was never opened
    {[ret |-> r, file |-> old, received |-> 0] : r \in {"False", "KeyboardInterrupt"}}
    \cup
    \* the whole body was written to dest
    {[ret |-> "True", file |-> File(b, b), received |-> b] : b \in Bodies}
    \cup
    \* open(dest, 'wb') truncated dest, the stream broke after n bytes
    UNION {{[ret |-> r, file |-> File(n, b), received |-> n] :
               n \in BreakPoints(b), r \in {"False", "KeyboardInterrupt"}} :
           b \in Bodies}

\* find_sd_cli(base): is there an sd-cli.exe under bin
find_sd_cli(f) == Exists(f[ExeSd])

(***************************************************************************)
(* Filesystem faults while probing.  exists_raises: Path.exists() raises   *)
(* (an OSError other than ENOENT/ENOTDIR, such as permission denied);      *)
(* stat_raises: exists() answered True and the following stat() raises     *)
(* (the file was removed in between, or cannot be read).                   *)
(***************************************************************************)
NoFault == [path |-> "none", kind |-> "none"]
FaultKinds == {"exists_raises", "stat_raises"}
Faults(ps) == {NoFault} \cup [path : ps, kind : FaultKinds]

\* 'if path.exists(): path.stat().st_size ... [OK] else [MISSING]'
Probe(f, p, fault) ==
    IF fault.path = p /\ fault.kind = "exists_raises" THEN "OSError"
    ELSE IF ~Exists(f[p]) THEN "MISSING"
    ELSE IF fault.path = p /\ fault.kind = "stat_raises" THEN "OSError"
    ELSE "OK"

CheckedPaths == {TargetOf(a) : a \in Assets}

\* check_installation(): "True", "False", or "OSError" when a probe raised
check_installation(f, fault) ==
    LET r == [p \in CheckedPaths |-> Probe(f, p, fault)]
    IN  IF \E p \in CheckedPaths : r[p] = "OSError" THEN "OSError"
        ELSE IF \A p \in CheckedPaths : r[p] = "OK" THEN "True"
        ELSE "False"

\* install(): 'dest.exists() and dest.stat().st_size > 1000000'
AlreadyExists(f) == Exists(f) /\ f.size > MinModelSize

(***************************************************************************)
(* zipfile.ZipFile(zip).extractall(bin_dir); zip.unlink() inside try.      *)
(*   ok_expected    all members written, the archive holds the target      *)
(*   ok_unexpected  all members written, the archive has no target         *)
(*   bad_zip        ZipFile() raised, nothing written                      *)
(*   mid_error      extractall raised after writing some members           *)
(*   unlink_error   all members written, unlink raised                     *)
(***************************************************************************)
ExtractKinds == {"ok_expected", "ok_unexpected", "bad_zip", "mid_error", "unlink_error"}
ExtractOK(k) == k \in {"ok_expected", "ok_unexpected"}

\* the extraction block without 'zip_path.unlink()'
ExtractKeepsArchive(f, a, k) ==
    [p \in Paths |->
        IF p = DestOf(a) THEN f[p]
        ELSE IF p = TargetOf(a) THEN
            (IF k \in {"ok_expected", "unlink_error"} THEN Member ELSE f[p])
        ELSE IF p = OtherOf(a) THEN
            (IF k = "bad_zip" THEN f[p] ELSE Member)
        ELSE f[p]]

Extract(f, a, k) ==
    [p \in Paths |->
        IF p = DestOf(a) THEN (IF ExtractOK(k) THEN Absent ELSE f[p])
        ELSE IF p = TargetOf(a) THEN
            (IF k \in {"ok_expected", "unlink_error"} THEN Member ELSE f[p])
        ELSE IF p = OtherOf(a) THEN
            (IF k = "bad_zip" THEN f[p] ELSE Member)
        ELSE f[p]]

NoDl == [dest |-> "none", ret |-> "none", received |-> 0]

(***************************************************************************)
(* main(): the parsed flags and the branch they select.  prompt says       *)
(* whether a positional prompt was given.                                  *)
(***************************************************************************)
Flags(c, i, n, p) == [check |-> c, install |-> i, interactive |-> n, prompt |-> p]
\* the command lines main() is run with
Args == { Flags(TRUE, FALSE, FALSE, FALSE),     \* --check
          Flags(TRUE, TRUE, FALSE, TRUE),       \* --check --install "a cat"
          Flags(FALSE, TRUE, FALSE, FALSE),     \* --install
          Flags(FALSE, FALSE, FALSE, FALSE),    \* no argument
          Flags(FALSE, FALSE, TRUE, TRUE),      \* -i "a cat"
          Flags(FALSE, FALSE, FALSE, TRUE) }    \* "a cat"
NoArgs == [check |-> FALSE, install |-> FALSE, interactive |-> FALSE, prompt |-> FALSE]

\* the order of the 'if args...' tests of main()
Dispatch(a) ==
    IF a.check THEN "check"
    ELSE IF a.install THEN "install"
    ELSE IF a.interactive \/ ~a.prompt THEN "interactive"
    ELSE "generate"

\* main() parsed flags that select the branch
MainArgs(branch) == \E a \in Args : Dispatch(a) = branch /\ args' = a

(***************************************************************************)
(* generate(prompt, output_path, width, height, seed, return_path).        *)
(***************************************************************************)
\* values of --seed
SeedArgs == {-1, 0, 42}
\* values random.randint(0, 999999) may give
RandSeeds == {7, 999999}
\* no '--seed' on the sd-cli command line
NoSeedArg == -1
\* no return code: subprocess.run did not return
NoRc == -1

\* what running sd-cli may do: raise when launched, be interrupted, or
\* return with a code, having written output_path or not
EngineOutcomes ==
    {[raised |-> "Exception", rc |-> NoRc, wrote |-> FALSE]}
    \cup {[raised |-> "KeyboardInterrupt", rc |-> NoRc, wrote |-> w] : w \in BOOLEAN}
    \cup {[raised |-> "none", rc |-> c, wrote |-> w] : c \in {0, 1}, w \in BOOLEAN}

NoGen == [invoked |-> FALSE, outGiven |-> FALSE, prior |-> FALSE, seedIn |-> -1,
          seed |-> -1, seedArg |-> NoSeedArg, raised |-> "none", rc |-> NoRc,
          wrote |-> FALSE, outAfter |-> FALSE, ret |-> "none", path |-> "none"]

\* no file is looked for
MissingFileIgnored(f) == FALSE

\* the returns of generate() before the command is built: a bare False
MissingFile(f) ==
    ~find_sd_cli(f) \/ ~Exists(f[Diffusion]) \/ ~Exists(f[Vae]) \/ ~Exists(f[Llm])

\* success is decided by the return code instead of the output file
generateByReturnCode(f, outGiven, prior, seed, return_path) ==
    IF MissingFile(f)
    THEN {[NoGen EXCEPT !.outGiven = outGiven, !.prior = prior, !.seedIn = seed,
                        !.seed = seed, !.ret = "False", !.path = "bare"]}
    ELSE UNION {
        LET s == IF ~outGiven /\ seed < 0 THEN r ELSE seed
        IN  {[invoked |-> TRUE, outGiven |-> outGiven, prior |-> prior, seedIn |-> seed,
              seed |-> s,
              seedArg |-> (IF s >= 0 THEN s ELSE NoSeedArg),
              raised |-> e.raised, rc |-> e.rc, wrote |-> e.wrote,
              outAfter |-> (prior \/ e.wrote),
              ret |-> (CASE e.raised = "KeyboardInterrupt" -> "KeyboardInterrupt"
                         [] e.raised = "Exception" -> "False"
                         [] OTHER -> (IF e.rc = 0 THEN "True" ELSE "False")),
              path |-> (IF ~return_path THEN "bare"
                        ELSE IF e.raised = "none" /\ e.rc = 0
                             THEN "output_path" ELSE "None")] :
             e \in EngineOutcomes} : r \in RandSeeds}

\* generate(): the records of the calls that may result.  f is the
\* installation directory, outGiven says whether output_path was passed,
\* prior whether a file was at the output path before the call.
generate(f, outGiven, prior, seed, return_path) ==
    IF MissingFile(f)
    THEN {[NoGen EXCEPT !.outGiven = outGiven, !.prior = prior, !.seedIn = seed,
                        !.seed = seed, !.ret = "False", !.path = "bare"]}
    ELSE UNION {
        \* 'if output_path is None: ... if seed < 0: seed = random.randint(...)'
        LET s == IF ~outGiven /\ seed < 0 THEN r ELSE seed
        IN  {[invoked |-> TRUE, outGiven |-> outGiven, prior |-> prior, seedIn |-> seed,
              seed |-> s,
              \* 'if seed >= 0: cmd.extend(["--seed", str(seed)])'
              seedArg |-> (IF s >= 0 THEN s ELSE NoSeedArg),
              raised |-> e.raised, rc |-> e.rc, wrote |-> e.wrote,
              outAfter |-> (prior \/ e.wrote),
              \* 'if output_path.exists()' inside try, 'except Exception'
              ret |-> (CASE e.raised = "KeyboardInterrupt" -> "KeyboardInterrupt"
                         [] e.raised = "Exception" -> "False"
                         [] OTHER -> (IF prior \/ e.wrote THEN "True" ELSE "False")),
              path |-> (IF ~return_path THEN "bare"
                        ELSE IF e.raised = "none" /\ (prior \/ e.wrote)
                             THEN "output_path" ELSE "None")] :
             e \in EngineOutcomes} : r \in RandSeeds}

(***************************************************************************)
(* Strings are sequences of one-character strings.                         *)
(***************************************************************************)
UpperCase == <<"A", "B", "C", "D", "E", "F", "G", "H", "I", "J", "K", "L", "M",
               "N", "O", "P", "Q", "R", "S", "T", "U", "V", "W", "X", "Y", "Z">>
LowerCase == <<"a", "b", "c", "d", "e", "f", "g", "h", "i", "j", "k", "l", "m",
               "n", "o", "p", "q", "r", "s", "t", "u", "v", "w", "x", "y", "z">>
DigitChars == <<"0", "1", "2", "3", "4", "5", "6", "7", "8", "9">>

Chars(s) == {s[i] : i \in 1..Len(s)}

LowerChar(c) ==
    IF \E i \in 1..Len(UpperCase) : UpperCase[i] = c
    THEN LowerCase[CHOOSE i \in 1..Len(UpperCase) : UpperCase[i] = c]
    ELSE c

\* str.lower()
lower(s) == [i \in 1..Len(s) |-> LowerChar(s[i])]

\* str.strip(): blanks removed at both ends
RECURSIVE lstrip(_)
lstrip(s) == IF s # <<>> /\ s[1] = " " THEN lstrip(Tail(s)) ELSE s
RECURSIVE rstrip(_)
rstrip(s) == IF s # <<>> /\ s[Len(s)] = " " THEN rstrip(SubSeq(s, 1, Len(s) - 1)) ELSE s
strip(s) == rstrip(lstrip(s))

\* str.startswith(p)
startswith(s, p) == Len(s) >= Len(p) /\ SubSeq(s, 1, Len(p)) = p

\* str.split(sep) for a one-character separator
RECURSIVE split(_, _)
split(s, sep) ==
    IF sep \notin Chars(s)
    THEN <<s>>
    ELSE LET i == CHOOSE k \in 1..Len(s) : s[k] = sep /\ \A j \in 1..(k - 1) : s[j] # sep
         IN  <<SubSeq(s, 1, i - 1)>> \o split(SubSeq(s, i + 1, Len(s)), sep)

DigitVal(c) == (CHOOSE i \in 1..10 : DigitChars[i] = c) - 1
RECURSIVE DigitsVal(_)
DigitsVal(d) == IF d = <<>> THEN 0
                ELSE 10 * DigitsVal(SubSeq(d, 1, Len(d) - 1)) + DigitVal(d[Len(d)])

\* int(s): blanks around, an optional sign, decimal digits; anything else
\* raises ValueError (IsInt false)
Unsigned(s) == IF strip(s) # <<>> /\ strip(s)[1] \in {"+", "-"} THEN Tail(strip(s)) ELSE strip(s)
IsInt(s) == Unsigned(s) # <<>> /\ \A c \in Chars(Unsigned(s)) : c \in Chars(DigitChars)
IntOf(s) == IF strip(s)[1] = "-" THEN 0 - DigitsVal(Unsigned(s)) ELSE DigitsVal(Unsigned(s))

(***************************************************************************)
(* interactive_mode(width, height) of generate.py.                         *)
(***************************************************************************)
DEFAULT_WIDTH == 768
DEFAULT_HEIGHT == 512
NoCount == -1
\* generations counted in one session
MaxGenerated == 2

QuitWords == {<<"q", "u", "i", "t">>, <<"e", "x", "i", "t">>, <<"q">>}
HelpWord == <<"h", "e", "l", "p">>
CheckWord == <<"c", "h", "e", "c", "k">>
SizePrefix == <<"s", "i", "z", "e", " ">>

\* lines typed at 'Enter prompt> '
InputLines ==
    { <<>>, <<" ">>,
      <<"q", "u", "i", "t">>, <<"E", "X", "I", "T", " ">>, <<"Q">>,
      <<"h", "e", "l", "p">>, <<"C", "h", "e", "c", "k">>,
      <<"c", "a", "t">>,
      <<"s", "i", "z", "e", " ", "8", "x", "6">>,
      <<"S", "I", "Z", "E", " ", " ", "8", " ", "X", " ", "6">>,
      <<"s", "i", "z", "e", " ", "8">>,
      <<"s", "i", "z", "e", " ", "8", "x", "z">>,
      <<"s", "i", "z", "e", " ", "z", "x", "6">>,
      <<"s", "i", "z", "e", " ", "8", "x", "6", "x", "4">>,
      <<"s", "i", "z", "e", " ", "x", "6">> }

\* the branch of the loop body a stripped line takes
Command(prompt) ==
    IF prompt = <<>> THEN "empty"
    ELSE IF lower(prompt) \in QuitWords THEN "quit"
    ELSE IF lower(prompt) = HelpWord THEN "help"
    ELSE IF lower(prompt) = CheckWord THEN "check"
    ELSE IF startswith(lower(prompt), SizePrefix) THEN "size"
    ELSE "generate"

\* the lines of InputLines that take each branch
LinesFor ==
    [c \in {"empty", "quit", "help", "check", "size", "generate"} |->
        {line \in InputLines : Command(strip(line)) = c}]

\* the 'size ' branch: <<width, height>> after it.  The assignments happen
\* one after the other inside the try, so a ValueError of the second int()
\* comes after width was assigned.
SizeCommand(prompt, w, h) ==
    LET size_part == lower(strip(SubSeq(prompt, 6, Len(prompt))))
        parts == split(size_part, "x")
    IN  IF "x" \notin Chars(size_part) THEN <<w, h>>
        ELSE IF Len(parts) # 2 THEN <<w, h>>
        ELSE IF ~IsInt(parts[1]) THEN <<w, h>>
        ELSE IF ~IsInt(parts[2]) THEN <<IntOf(parts[1]), h>>
        ELSE <<IntOf(parts[1]), IntOf(parts[2])>>

InitRun ==
    /\ args = NoArgs
    /\ lastGen = NoGen
    /\ width = DEFAULT_WIDTH
    /\ height = DEFAULT_HEIGHT
    /\ generated_count = 0
    /\ succeeded = 0
    /\ reported = NoCount
    /\ loopEnd = "none"
    /\ lastLine = <<>>

\* the installation directories a session of generation starts in: a
\* complete installation, one whose text encoder broke off while it was
\* downloaded, one without the text encoder, and an empty directory
Installed(present, broken) ==
    [p \in Paths |-> IF p \in broken THEN File(SmallSize, BodySize)
                     ELSE IF p \in present THEN File(BodySize, BodySize)
                     ELSE Absent]
SampleInstalls ==
    { Installed({ExeSd, OtherSd, DllCuda, OtherCuda} \cup ModelPaths, {}),
      Installed({ExeSd, OtherSd, DllCuda, OtherCuda} \cup ModelPaths, {Llm}),
      Installed({ExeSd, OtherSd, DllCuda, OtherCuda, Diffusion, Vae}, {}),
      Installed({}, {}) }

InitProc ==
    /\ pc = "idle"
    /\ ret = "none"
    /\ exitcode = NoExit
    /\ checkResult = "none"
    /\ requested = {}
    /\ failed = {}
    /\ skipped = {}
    /\ processed = {}
    /\ fetched = {}
    /\ extracted = {}
    /\ withTarget = {}
    /\ startOK = FALSE
    /\ startEmpty = FALSE
    /\ lastDl = NoDl

InitGen ==
    /\ fs = [p \in Paths |-> Absent]
    /\ InitProc

InitInstalled ==
    /\ fs \in SampleInstalls
    /\ InitProc

\* every second step is left out
NextPcSkipping(a) ==
    IF IndexOf(a) >= Len(Catalog) - 1 THEN "verify" ELSE Catalog[IndexOf(a) + 2]

\* position after the step of asset a
NextPc(a) == IF IndexOf(a) = Len(Catalog) THEN "verify" ELSE Catalog[IndexOf(a) + 1]

\* main(): args.install (and not args.check): install() starts
MainInstall ==
    /\ pc = "idle"
    /\ pc' = Catalog[1]
    /\ startOK' = (check_installation(fs, NoFault) = "True")
    /\ startEmpty' = (\A p \in Paths : ~Exists(fs[p]))
    /\ UNCHANGED <<fs, ret, exitcode, checkResult, requested, failed, skipped,
                   processed, fetched, extracted, withTarget, lastDl>>

\* install() ends: main() returns 0 for True, 1 for False; an exception
\* leaves main() and the interpreter exits non-zero
EndInstall(r) ==
    /\ pc' = "returned"
    /\ ret' = r
    /\ exitcode' = CASE r = "True" -> 0
                     [] r = "False" -> 1
                     [] r = "KeyboardInterrupt" -> 130
                     [] OTHER -> 1

\* install(): steps [1/5] and [2/5], an archive asset
InstallArchive(a) ==
    /\ pc = a
    /\ a \in ArchiveAssets
    /\ processed' = processed \cup {a}
    /\ UNCHANGED <<checkResult, skipped, startOK, startEmpty>>
    /\ IF (IF a = "sd-cli" THEN find_sd_cli(fs) ELSE Exists(fs[DllCuda]))
       THEN /\ pc' = NextPc(a)
            /\ UNCHANGED <<fs, ret, exitcode, requested, failed, fetched, extracted,
                           withTarget, lastDl>>
       ELSE \E o \in download_file(fs[DestOf(a)]) :
            /\ requested' = requested \cup {a}
            /\ lastDl' = [dest |-> DestOf(a), ret |-> o.ret, received |-> o.received]
            /\ IF o.ret # "True"
               THEN /\ fs' = [fs EXCEPT ![DestOf(a)] = o.file]
                    /\ failed' = failed \cup {a}
                    /\ EndInstall(o.ret)
                    /\ UNCHANGED <<fetched, extracted, withTarget>>
               ELSE \E k \in ExtractKinds :
                    /\ fs' = Extract([fs EXCEPT ![DestOf(a)] = o.file], a, k)
                    /\ fetched' = fetched \cup {a}
                    /\ IF ExtractOK(k)
                       THEN /\ extracted' = extracted \cup {a}
                            /\ withTarget' = (IF k = "ok_expected" THEN withTarget \cup {a}
                                              ELSE withTarget)
                            /\ pc' = NextPc(a)
                            /\ UNCHANGED <<ret, exitcode, failed>>
                       ELSE /\ failed' = failed \cup {a}
                            /\ EndInstall("False")
                            /\ UNCHANGED <<extracted, withTarget>>

\* install(): steps [3/5]..[5/5], a model file
InstallModel(a) ==
    /\ pc = a
    /\ a \in ModelAssets
    /\ processed' = processed \cup {a}
    /\ UNCHANGED <<checkResult, fetched, extracted, withTarget, startOK, startEmpty>>
    /\ IF AlreadyExists(fs[DestOf(a)])
       THEN /\ skipped' = skipped \cup {a}
            /\ pc' = NextPc(a)
            /\ UNCHANGED <<fs, ret, exitcode, requested, failed, lastDl>>
       ELSE \E o \in download_file(fs[DestOf(a)]) :
            /\ requested' = requested \cup {a}
            /\ lastDl' = [dest |-> DestOf(a), ret |-> o.ret, received |-> o.received]
            /\ fs' = [fs EXCEPT ![DestOf(a)] = o.file]
            /\ UNCHANGED skipped
            /\ IF o.ret = "KeyboardInterrupt"
               THEN /\ failed' = failed \cup {a}
                    /\ EndInstall(o.ret)
               ELSE /\ failed' = (IF o.ret = "False" THEN failed \cup {a} ELSE failed)
                    /\ pc' = NextPc(a)
                    /\ UNCHANGED <<ret, exitcode>>

\* install(): 'check_installation(); return True'
InstallFinish ==
    /\ pc = "verify"
    /\ \E fault \in Faults(CheckedPaths) :
         LET c == check_installation(fs, fault)
         IN  /\ checkResult' = c
             /\ EndInstall(IF c = "OSError" THEN "OSError" ELSE "True")
    /\ UNCHANGED <<fs, requested, failed, skipped, processed, fetched, extracted,
                   withTarget, startOK, startEmpty, lastDl>>

\* main(): args.check: 'ok = check_installation(); return 0 if ok else 1'
MainCheck ==
    /\ pc = "idle"
    /\ \E fault \in Faults(CheckedPaths) :
         LET c == check_installation(fs, fault)
         IN  /\ checkResult' = c
             /\ exitcode' = (IF c = "True" THEN 0 ELSE 1)
    /\ pc' = "returned"
    /\ UNCHANGED <<fs, ret, requested, failed, skipped, processed, fetched,
                   extracted, withTarget, startOK, startEmpty, lastDl>>

\* main(): single prompt: the installation gate, then generate()
MainGenerate ==
    /\ pc = "idle"
    /\ pc' = "returned"
    /\ \E fault \in Faults(CheckedPaths) :
         LET c == check_installation(fs, fault)
         IN  /\ checkResult' = c
             /\ IF c # "True"
                THEN /\ exitcode' = 1
                     /\ lastGen' = NoGen
                ELSE \E seed \in SeedArgs, og \in BOOLEAN, prior \in BOOLEAN :
                     \E g \in generate(fs, og, prior, seed, FALSE) :
                        /\ lastGen' = g
                        /\ exitcode' = (CASE g.ret = "True" -> 0
                                          [] g.ret = "False" -> 1
                                          [] OTHER -> 130)
    /\ UNCHANGED <<fs, ret, requested, failed, skipped, processed, fetched,
                   extracted, withTarget, startOK, startEmpty, lastDl>>

\* main(): interactive branch: the installation gate, then interactive_mode()
MainInteractive ==
    /\ pc = "idle"
    /\ \E fault \in Faults(CheckedPaths) :
         LET c == check_installation(fs, fault)
         IN  /\ checkResult' = c
             /\ IF c # "True"
                THEN pc' = "returned" /\ exitcode' = 1
                ELSE pc' = "interactive" /\ UNCHANGED exitcode
    /\ UNCHANGED <<fs, ret, requested, failed, skipped, processed, fetched,
                   extracted, withTarget, startOK, startEmpty, lastDl>>
    /\ UNCHANGED <<lastGen, loopvars>>

\* what the install steps and the process leave alone during the loop
LoopFrame == UNCHANGED <<fs, ret, requested, failed, skipped, processed, fetched,
                         extracted, withTarget, startOK, startEmpty, lastDl, args>>

\* input() raises EOFError or KeyboardInterrupt: 'Goodbye!', break, return 0
LoopInputEnds ==
    /\ pc = "interactive"
    /\ \E e \in {"EOFError", "KeyboardInterrupt"} : loopEnd' = e
    /\ pc' = "returned"
    /\ exitcode' = 0
    /\ LoopFrame
    /\ UNCHANGED <<checkResult, lastGen, width, height, generated_count, succeeded,
                   reported, lastLine>>

\* an empty line or 'help': continue
LoopContinue ==
    /\ pc = "interactive"
    /\ \E line \in LinesFor["empty"] \cup LinesFor["help"] : TRUE
    /\ LoopFrame
    /\ UNCHANGED <<pc, exitcode, checkResult, lastGen, loopvars>>

\* 'quit', 'exit' or 'q': the count is printed, break, return 0
LoopQuit ==
    /\ pc = "interactive"
    /\ \E line \in LinesFor["quit"] : lastLine' = line
    /\ reported' = generated_count
    /\ loopEnd' = "quit"
    /\ pc' = "returned"
    /\ exitcode' = 0
    /\ LoopFrame
    /\ UNCHANGED <<checkResult, lastGen, width, height, generated_count, succeeded>>

\* 'check': check_installation(), continue; an OSError it raises is caught
\* nowhere and ends the process
LoopCheck ==
    /\ pc = "interactive"
    /\ \E line \in LinesFor["check"], fault \in Faults(CheckedPaths) :
         LET c == check_installation(fs, fault)
         IN  /\ checkResult' = c
             /\ IF c = "OSError"
                THEN /\ pc' = "returned"
                     /\ exitcode' = 1
                     /\ loopEnd' = "OSError"
                     /\ lastLine' = line
                ELSE UNCHANGED <<pc, exitcode, loopEnd, lastLine>>
    /\ LoopFrame
    /\ UNCHANGED <<lastGen, width, height, generated_count, succeeded, reported>>

\* 'size WxH': continue
LoopSize ==
    /\ pc = "interactive"
    /\ \E line \in LinesFor["size"] :
         /\ width' = SizeCommand(strip(line), width, height)[1]
         /\ height' = SizeCommand(strip(line), width, height)[2]
         /\ lastLine' = line
    /\ LoopFrame
    /\ UNCHANGED <<pc, exitcode, checkResult, lastGen, generated_count, succeeded,
                   reported, loopEnd>>

\* while the session waits for input, something else removes the sd-cli
\* executable or a model file of a complete installation
FileRemoved ==
    /\ pc = "interactive"
    /\ ~MissingFile(fs)
    /\ \E p \in {ExeSd} \cup ModelPaths :
         /\ Exists(fs[p])
         /\ fs' = [fs EXCEPT ![p] = Absent]
    /\ UNCHANGED <<pc, ret, exitcode, checkResult, requested, failed, skipped,
                   processed, fetched, extracted, withTarget, startOK, startEmpty,
                   lastDl, args, lastGen, loopvars>>

\* any other line: 'success, output_path = generate(..., return_path=True)'
LoopGenerate ==
    /\ pc = "interactive"
    /\ generated_count < MaxGenerated
    /\ \E line \in LinesFor["generate"], prior \in BOOLEAN :
       \E g \in generate(fs, FALSE, prior, -1, TRUE) :
         /\ lastGen' = g
         /\ CASE g.ret = "KeyboardInterrupt" ->
                   \* propagates out of interactive_mode() and main()
                   /\ pc' = "returned" /\ exitcode' = 130
                   /\ loopEnd' = "KeyboardInterrupt in generate"
                   /\ lastLine' = line
                   /\ UNCHANGED <<generated_count, succeeded>>
              [] g.ret # "KeyboardInterrupt" /\ g.path = "bare" ->
                   \* a bare False cannot be unpacked: TypeError
                   /\ pc' = "returned" /\ exitcode' = 1
                   /\ loopEnd' = "TypeError"
                   /\ lastLine' = line
                   /\ UNCHANGED <<generated_count, succeeded>>
              [] OTHER ->
                   /\ generated_count' = generated_count + (IF g.ret = "True" THEN 1 ELSE 0)
                   /\ succeeded' = succeeded + (IF g.ret = "True" THEN 1 ELSE 0)
                   /\ UNCHANGED <<pc, exitcode, loopEnd, lastLine>>
    /\ LoopFrame
    /\ UNCHANGED <<checkResult, width, height, reported>>

\* sys.exit(main()): the process is gone, only the files stay
ProcessExit ==
    /\ pc = "returned"
    /\ args' = NoArgs
    /\ lastGen' = NoGen
    /\ width' = DEFAULT_WIDTH
    /\ height' = DEFAULT_HEIGHT
    /\ generated_count' = 0
    /\ succeeded' = 0
    /\ reported' = NoCount
    /\ loopEnd' = "none"
    /\ lastLine' = <<>>
    /\ pc' = "idle"
    /\ ret' = "none"
    /\ exitcode' = NoExit
    /\ checkResult' = "none"
    /\ requested' = {}
    /\ failed' = {}
    /\ skipped' = {}
    /\ processed' = {}
    /\ fetched' = {}
    /\ extracted' = {}
    /\ withTarget' = {}
    /\ startOK' = FALSE
    /\ startEmpty' = FALSE
    /\ lastDl' = NoDl
    /\ UNCHANGED fs

(***************************************************************************)
(* core/model.py: ModelManager.                                            *)
(***************************************************************************)
\* iter_content(chunk_size=8192)
MMChunkSize == 8192
\* chunks of a complete model body
MMMaxChunks == 3

MMFullBody == MMChunkSize * MMMaxChunks
\* bodies a server may deliver: nothing, an HTML page, the model
MMBodies == {0, SmallSize, MMFullBody}

Min(a, b) == IF a < b THEN a ELSE b

\* MODELS["q4_0"].size_bytes, 3_950_000_000, counted in thousands of bytes
\* (it is only compared for equality, never added to a byte count)
MMSizeBytes == 3950000

\* the response has no content-length header
NoHeader == -1

\* 'int(response.headers.get('content-length', self.model_info.size_bytes))'
total_size(header) == IF header = NoHeader THEN MMSizeBytes ELSE header

\* is_downloaded(): 'model_path.exists() and model_path.stat().st_size > 0'
is_downloaded(f, kind) ==
    IF kind = "exists_raises" THEN "OSError"
    ELSE IF ~Exists(f) THEN "False"
    ELSE IF kind = "stat_raises" THEN "OSError"
    ELSE IF f.size > 0 THEN "True"
    ELSE "False"

\* verify() of a descriptor without sha256 (every entry of MODELS)
verify(f, kind) ==
    IF kind = "exists_raises" THEN "OSError"
    ELSE IF ~Exists(f) THEN "False"
    ELSE IF kind = "stat_raises" THEN "OSError"
    ELSE IF f.size > 0 THEN "True"
    ELSE "False"

InitMM ==
    /\ mmModel = Absent
    /\ mmTemp = Absent
    /\ mmPc = "idle"
    /\ mmDownloaded = 0
    /\ mmTotal = 0
    /\ mmExc = "none"
    /\ mmStage = "none"
    /\ mmBefore = Absent
    /\ mmHttp = 0
    /\ mmOp = "none"
    /\ mmResult = "none"
    /\ mmCb = FALSE
    /\ mmHeader = NoHeader
    /\ mmTotalSize = 0
    /\ mmCalls = <<>>
    /\ mmWrites = 0

\* download() ends by raising exc at stage; the handlers of
\* requests.RequestException and KeyboardInterrupt unlink temp_path,
\* any other exception leaves the function with temp_path as it is
MMRaise(exc, stage, temp) ==
    /\ mmPc' = "idle"
    /\ mmStage' = stage
    /\ mmExc' = (IF exc = "RequestException" THEN "DownloadError" ELSE exc)
    /\ mmTemp' = (IF exc \in {"RequestException", "KeyboardInterrupt"} THEN Absent ELSE temp)

\* download(): from the call to the first iteration of the chunk loop
MMBegin(cb) ==
    /\ mmBefore' = mmModel
    /\ mmHttp' = 1
    /\ mmDownloaded' = 0
    /\ mmResult' = "none"
    /\ mmCb' = cb
    /\ mmCalls' = <<>>
    /\ mmWrites' = 0
    /\ UNCHANGED mmModel
    /\ \/ \* requests.get / raise_for_status raised, or the user interrupted
          /\ \E exc \in {"RequestException", "KeyboardInterrupt"} :
                MMRaise(exc, "request", mmTemp)
          /\ mmHeader' = NoHeader
          /\ mmTotalSize' = 0
          /\ UNCHANGED mmTotal
       \/ \* the response arrived, open(temp_path, 'wb') raised
          /\ MMRaise("OSError", "open", mmTemp)
          /\ \E h \in MMBodies \cup {NoHeader} :
                /\ mmHeader' = h
                /\ mmTotalSize' = total_size(h)
          /\ UNCHANGED mmTotal
       \/ \* the response arrived and temp_path was created empty
          /\ \E b \in MMBodies : \E h \in {b, NoHeader} :
                /\ mmTotal' = b
                /\ mmTemp' = File(0, b)
                /\ mmHeader' = h
                /\ mmTotalSize' = total_size(h)
          /\ mmPc' = "streaming"
          /\ mmExc' = "none"
          /\ mmStage' = "stream"

\* download() called by the user
MMDownload ==
    /\ mmPc = "idle"
    /\ mmOp' = "download"
    /\ \E cb \in BOOLEAN : MMBegin(cb)

\* get_model_path(): 'if not self.is_downloaded(): self.download()'
MMGetModelPath ==
    /\ mmPc = "idle"
    /\ mmOp' = "get_model_path"
    /\ \E kind \in {"none"} \cup FaultKinds :
         LET d == is_downloaded(mmModel, kind)
         IN  CASE d = "True" ->
                    /\ mmHttp' = 0
                    /\ mmExc' = "none"
                    /\ mmStage' = "none"
                    /\ mmResult' = d
                    /\ UNCHANGED <<mmModel, mmTemp, mmPc, mmDownloaded, mmTotal, mmBefore>>
                    /\ UNCHANGED mmProgress
               [] d = "False" -> MMBegin(FALSE)
               [] OTHER ->
                    /\ mmHttp' = 0
                    /\ mmExc' = "OSError"
                    /\ mmStage' = "none"
                    /\ mmResult' = d
                    /\ UNCHANGED <<mmModel, mmTemp, mmPc, mmDownloaded, mmTotal, mmBefore>>
                    /\ UNCHANGED mmProgress

\* the chunk loop reporting the length of the chunk instead of 'downloaded'
MMChunkReportsChunkLen ==
    /\ mmPc = "streaming"
    /\ mmDownloaded < mmTotal
    /\ \E n \in {0, Min(MMChunkSize, mmTotal - mmDownloaded)} :
         IF n = 0
         THEN UNCHANGED <<mmTemp, mmDownloaded, mmCalls, mmWrites>>
         ELSE /\ mmTemp' = File(mmTemp.size + n, mmTemp.total)
              /\ mmDownloaded' = mmDownloaded + n
              /\ mmWrites' = mmWrites + 1
              /\ mmCalls' = (IF mmCb THEN Append(mmCalls, <<n, mmTotalSize>>)
                             ELSE mmCalls)
    /\ UNCHANGED <<mmModel, mmPc, mmTotal, mmExc, mmStage, mmBefore, mmHttp, mmOp,
                   mmResult, mmCb, mmHeader, mmTotalSize>>

\* download(): one iteration of the chunk loop: 'if chunk:' skips an empty
\* chunk, any other is written, counted and reported
MMChunk ==
    /\ mmPc = "streaming"
    /\ mmDownloaded < mmTotal
    /\ \E n \in {0, Min(MMChunkSize, mmTotal - mmDownloaded)} :
         IF n = 0
         THEN UNCHANGED <<mmTemp, mmDownloaded, mmCalls, mmWrites>>
         ELSE /\ mmTemp' = File(mmTemp.size + n, mmTemp.total)
              /\ mmDownloaded' = mmDownloaded + n
              /\ mmWrites' = mmWrites + 1
              /\ mmCalls' = (IF mmCb THEN Append(mmCalls, <<mmDownloaded + n, mmTotalSize>>)
                             ELSE mmCalls)
    /\ UNCHANGED <<mmModel, mmPc, mmTotal, mmExc, mmStage, mmBefore, mmHttp, mmOp,
                   mmResult, mmCb, mmHeader, mmTotalSize>>

\* download(): the chunk loop raises: the connection breaks or times out
\* (RequestException), the user interrupts, or f.write fails (OSError)
MMStreamError ==
    /\ mmPc = "streaming"
    /\ \E exc \in {"RequestException", "KeyboardInterrupt", "OSError"} :
         /\ exc # "KeyboardInterrupt" => mmDownloaded < mmTotal
         /\ MMRaise(exc, "stream", mmTemp)
    /\ UNCHANGED <<mmModel, mmDownloaded, mmTotal, mmBefore, mmHttp, mmOp, mmResult>>
    /\ UNCHANGED mmProgress

\* the end of download() copying temp_path instead of moving it
MMMoveCopies ==
    /\ mmPc = "streaming"
    /\ mmDownloaded = mmTotal
    /\ \/ /\ mmModel' = mmTemp
          /\ mmTemp' = mmTemp
          /\ mmPc' = "idle"
          /\ mmExc' = "none"
          /\ mmStage' = "done"
       \/ /\ MMRaise("OSError", "move", mmTemp)
          /\ UNCHANGED mmModel
    /\ UNCHANGED <<mmDownloaded, mmTotal, mmBefore, mmHttp, mmOp, mmResult>>
    /\ UNCHANGED mmProgress

\* download(): the loop ended, 'shutil.move(temp_path, model_path)'
MMMove ==
    /\ mmPc = "streaming"
    /\ mmDownloaded = mmTotal
    /\ \/ /\ mmModel' = mmTemp
          /\ mmTemp' = Absent
          /\ mmPc' = "idle"
          /\ mmExc' = "none"
          /\ mmStage' = "done"
       \/ /\ MMRaise("OSError", "move", mmTemp)
          /\ UNCHANGED mmModel
    /\ UNCHANGED <<mmDownloaded, mmTotal, mmBefore, mmHttp, mmOp, mmResult>>
    /\ UNCHANGED mmProgress

\* is_downloaded() or verify() called by the user
MMVerify ==
    /\ mmPc = "idle"
    /\ \E op \in {"is_downloaded", "verify"}, kind \in {"none"} \cup FaultKinds :
         LET r == IF op = "verify" THEN verify(mmModel, kind) ELSE is_downloaded(mmModel, kind)
         IN  /\ mmOp' = op
             /\ mmResult' = r
             /\ mmExc' = (IF r = "OSError" THEN "OSError" ELSE "none")
    /\ mmHttp' = 0
    /\ mmStage' = "none"
    /\ UNCHANGED <<mmModel, mmTemp, mmPc, mmDownloaded, mmTotal, mmBefore>>
    /\ UNCHANGED mmProgress

\* delete()
MMDelete ==
    /\ mmPc = "idle"
    /\ Exists(mmModel)
    /\ mmModel' = Absent
    /\ mmOp' = "delete"
    /\ mmExc' = "none"
    /\ mmStage' = "none"
    /\ mmHttp' = 0
    /\ mmResult' = "none"
    /\ UNCHANGED <<mmTemp, mmPc, mmDownloaded, mmTotal, mmBefore>>
    /\ UNCHANGED mmProgress

(***************************************************************************)
(* Specifications.                                                         *)
(***************************************************************************)
(***************************************************************************)
(* settings.py: Settings.get_output_path.  A path is the sequence of its   *)
(* components.                                                             *)
(***************************************************************************)
\* str(n) of a non-negative integer
RECURSIVE Str(_)
Str(n) == IF n < 10 THEN <<DigitChars[n + 1]>>
          ELSE Str(n \div 10) \o <<DigitChars[(n % 10) + 1]>>

\* 'zimage_{seed}_{timestamp}': characters and replacement fields
filename_template == <<"z", "i", "m", "a", "g", "e", "_", "{seed}", "_", "{timestamp}">>

\* str.format(seed=..., timestamp=...)
RECURSIVE format(_, _, _)
format(t, seed, timestamp) ==
    IF t = <<>> THEN <<>>
    ELSE (CASE t[1] = "{seed}" -> seed
            [] t[1] = "{timestamp}" -> timestamp
            [] OTHER -> <<t[1]>>) \o format(Tail(t), seed, timestamp)

\* the components pathlib keeps of a string: empty ones and '.' are dropped
Components(s) == SelectSeq(split(s, "/"), LAMBDA c : c # <<>> /\ c # <<".">>)

\* 'dir / s': an absolute s replaces dir
JoinPath(dir, s) ==
    IF s # <<>> /\ s[1] = "/" THEN <<<<"/">>>> \o Components(s)
    ELSE dir \o Components(s)

\* Path.name
PathName(path) == path[Len(path)]

\* Path.suffix: from the last dot of the name, unless the name starts or
\* ends with that dot
PathSuffix(path) ==
    LET name == PathName(path)
        dots == {i \in 1..Len(name) : name[i] = "."}
        i    == IF dots = {} THEN 0 ELSE CHOOSE k \in dots : \A j \in dots : j <= k
    IN  IF 1 < i /\ i < Len(name) THEN SubSeq(name, i, Len(name)) ELSE <<>>

\* 'sub in s'
Contains(s, sub) ==
    \E i \in 1..(Len(s) - Len(sub) + 1) : SubSeq(s, i, i + Len(sub) - 1) = sub

\* Settings.output_dir
OutputDir == << <<"D", "o", "w", "n", "l", "o", "a", "d", "s">> >>
RandomWord == <<"r", "a", "n", "d", "o", "m">>
PngSuffix == <<".", "p", "n", "g">>

\* every file is named after a random seed
get_output_path_random(seed, timestamp) ==
    JoinPath(OutputDir, format(filename_template, RandomWord, timestamp) \o PngSuffix)

\* get_output_path(seed, timestamp) with a timestamp given
get_output_path(seed, timestamp) ==
    JoinPath(OutputDir,
             format(filename_template,
                    IF seed >= 0 THEN Str(seed) ELSE RandomWord,
                    timestamp) \o PngSuffix)

\* values of the seed argument
AppSeeds == {-1, 0, 42, 999999}
\* values of the timestamp argument
Timestamps ==
    { <<"2", "0", "2", "4", "0", "1", "0", "1", "_", "0", "0", "0", "0", "0", "0">>,
      <<>>, <<"t">>, <<"1", ".", "5">>, <<"a", "/", "b">>, <<"x", "/">> }

NoOut == [seed |-> -1, timestamp |-> <<>>, path |-> <<>>]

(***************************************************************************)
(* model.py: ModelManager.verify() of a descriptor that declares sha256.   *)
(* sha256 is a small rolling hash here, fed chunk by chunk as the code     *)
(* feeds hashlib; hexdigest() is its lower-case hexadecimal digit.         *)
(***************************************************************************)
HexChars == <<"0", "1", "2", "3", "4", "5", "6", "7", "8", "9",
              "a", "b", "c", "d", "e", "f">>
HashMod == 16
HashInit == 7
\* bytes read per f.read(), scaled like the contents
ReadChunk == 2
\* longest file content
MaxContent == 3
Bytes == {0, 1}

NoFile == [exists |-> FALSE, bytes |-> <<>>]
Content(b) == [exists |-> TRUE, bytes |-> b]
Contents == {NoFile} \cup {Content(b) : b \in UNION {[1..n -> Bytes] : n \in 0..MaxContent}}

\* the sha256 values a descriptor declares
Declared == {<<HexChars[i]>> : i \in 1..Len(HexChars)} \cup {<<"A">>, <<"D">>}

\* sha256_hash.update(chunk)
RECURSIVE update(_, _)
update(h, chunk) ==
    IF chunk = <<>> THEN h
    ELSE update((h * 3 + chunk[1] + 1) % HashMod, Tail(chunk))

\* 'for chunk in iter(lambda: f.read(8192), b""): sha256_hash.update(chunk)'
RECURSIVE ReadAll(_, _)
ReadAll(h, bytes) ==
    IF bytes = <<>> THEN h
    ELSE LET n == Min(ReadChunk, Len(bytes))
         IN  ReadAll(update(h, SubSeq(bytes, 1, n)), SubSeq(bytes, n + 1, Len(bytes)))

hexdigest(h) == <<HexChars[h + 1]>>

VerifyFaults == {"none", "exists_raises", "open_raises"}

\* verify(): "True", "False", or "OSError" when exists() or open() raised
verify_sha256(file, sha256, kind) ==
    IF kind = "exists_raises" THEN "OSError"
    ELSE IF ~file.exists THEN "False"
    ELSE IF kind = "open_raises" THEN "OSError"
    ELSE IF hexdigest(ReadAll(HashInit, file.bytes)) = sha256 THEN "True"
    ELSE "False"

NoVer == [file |-> NoFile, sha256 |-> <<>>, kind |-> "none", result |-> "none"]

(***************************************************************************)
(* get_downloads_folder() of paths.py and of generate.py.  The environment *)
(* of a call:                                                              *)
(*   platform  sys.platform                                                *)
(*   pd        user_downloads_dir(): it raises, gives '', gives a path     *)
(*             that exists or is missing, or exists() of the path raises   *)
(*   kf        SHGetKnownFolderPath: the call raises, hr # 0, or it gives  *)
(*             a path that exists or is missing                            *)
(*   home      Path.home(): it raises RuntimeError, or gives a directory   *)
(*             that exists or is missing                                   *)
(*   homeDl    home / 'Downloads': exists, missing, or exists() raises     *)
(***************************************************************************)
DlEnvs ==
    {e \in [platform : {"win32", "linux"},
            pd : {"raises", "empty", "exists", "missing", "exists_raises"},
            kf : {"raises", "hr_error", "exists", "missing"},
            home : {"raises", "exists", "missing"},
            homeDl : {"exists", "missing", "exists_raises"}] :
        e.home # "exists" => e.homeDl = "missing"}

\* the last two steps of both functions: home / 'Downloads', then home
HomeFallback(e) ==
    IF e.home = "raises" THEN [kind |-> "RuntimeError", exists |-> FALSE]
    ELSE IF e.homeDl = "exists_raises" THEN [kind |-> "OSError", exists |-> FALSE]
    ELSE IF e.homeDl = "exists" THEN [kind |-> "home_downloads", exists |-> TRUE]
    ELSE [kind |-> "home", exists |-> (e.home = "exists")]

\* the win32 step of both functions: 'if hr == 0 and pszPath.value: return'
KnownFolder(e, rest) ==
    IF e.platform = "win32" /\ e.kf \in {"exists", "missing"}
    THEN [kind |-> "known", exists |-> (e.kf = "exists")]
    ELSE rest

\* paths.py get_downloads_folder(): what it returns or raises, and whether
\* the returned path exists
get_downloads_folder(e) ==
    IF e.pd = "exists" THEN [kind |-> "platform", exists |-> TRUE]
    ELSE KnownFolder(e, HomeFallback(e))

\* generate.py get_downloads_folder()
script_get_downloads_folder(e) == KnownFolder(e, HomeFallback(e))

NoDlCall == [variant |-> "none",
             env |-> [platform |-> "none", pd |-> "none", kf |-> "none",
                      home |-> "none", homeDl |-> "none"],
             kind |-> "none", exists |-> FALSE]

(***************************************************************************)
(* model.py: MODELS and ModelManager.__init__.  Sizes in thousands of      *)
(* bytes.                                                                  *)
(***************************************************************************)
ModelKeys == {"q4_0", "q5_0", "q8_0"}
MODELS ==
    [k \in ModelKeys |->
        CASE k = "q4_0" -> [filename |-> "z_image_turbo-Q4_0.gguf", size_bytes |-> MMSizeBytes]
          [] k = "q5_0" -> [filename |-> "z_image_turbo-Q5_0.gguf", size_bytes |-> 4870000]
          [] k = "q8_0" -> [filename |-> "z_image_turbo-Q8_0.gguf", size_bytes |-> 7060000]]
NoInfo == [filename |-> "", size_bytes |-> 0]

\* values of model_type
ModelTypes == ModelKeys \cup {"q2_k", "Q4_0", ""}

\* ModelManager(model_type, cache_dir): the exception raised, the
\* descriptor selected, whether get_model_cache_path() made the cache
\* directory, and the requests sent
ModelManager(model_type, cache_dir_given) ==
    IF model_type \notin DOMAIN MODELS
    THEN [model_type |-> model_type, exc |-> "ValueError", info |-> NoInfo,
          mkdir |-> FALSE, http |-> 0]
    ELSE [model_type |-> model_type, exc |-> "none", info |-> MODELS[model_type],
          mkdir |-> ~cache_dir_given, http |-> 0]

NoMgr == [model_type |-> "", exc |-> "none", info |-> NoInfo, mkdir |-> FALSE, http |-> -1]

(***************************************************************************)
(* app.py: generate_image() and interactive_mode().                        *)
(***************************************************************************)
\* no call of StableDiffusion.generate_image
NoEngine == -2
\* generations counted in one session of app.py
MaxCount == 2

\* generate_image(prompt, settings, seed): what it hands to the engine and
\* how it ends.  ZImageGenerator.generate passes seed on as it is.
\*   saved            the image was saved, the path is returned
\*   None             no image, GenerationError or DownloadError: None
\*   Exception        another exception leaves generate_image
\*   KeyboardInterrupt
generate_image(seed) ==
    {[seed |-> seed, out |-> o] : o \in {"saved", "None", "Exception", "KeyboardInterrupt"}}
    \cup {[seed |-> NoEngine, out |-> o] : o \in {"None", "Exception", "KeyboardInterrupt"}}

InitApp ==
    /\ appPc = "idle"
    /\ appEvent = "none"
    /\ count = 0
    /\ appSucceeded = 0
    /\ appReported = NoCount
    /\ appExit = NoExit
    /\ engineSeed = NoEngine
    /\ outCall = NoOut
    /\ verCall = NoVer
    /\ dlCall = NoDlCall
    /\ mgrCall = NoMgr

\* what a call leaves as it was at the start of the process
AppReset(keep) ==
    /\ "pc" \in keep \/ appPc' = "idle"
    /\ appEvent' = "none"
    /\ count' = 0
    /\ appSucceeded' = 0
    /\ appReported' = NoCount
    /\ "exit" \in keep \/ appExit' = NoExit
    /\ "seed" \in keep \/ engineSeed' = NoEngine
    /\ "out" \in keep \/ outCall' = NoOut
    /\ "ver" \in keep \/ verCall' = NoVer
    /\ "dl" \in keep \/ dlCall' = NoDlCall
    /\ "mgr" \in keep \/ mgrCall' = NoMgr

\* settings.get_output_path(seed, timestamp)
AppGetOutputPath ==
    /\ appPc = "idle"
    /\ \E seed \in AppSeeds, t \in Timestamps :
         outCall' = [seed |-> seed, timestamp |-> t, path |-> get_output_path(seed, t)]
    /\ AppReset({"out"})

\* ModelManager.verify()
AppVerify ==
    /\ appPc = "idle"
    /\ \E f \in Contents, h \in Declared, kind \in VerifyFaults :
         verCall' = [file |-> f, sha256 |-> h, kind |-> kind,
                     result |-> verify_sha256(f, h, kind)]
    /\ AppReset({"ver"})

\* get_downloads_folder() of either file
AppGetDownloadsFolder ==
    /\ appPc = "idle"
    /\ \E e \in DlEnvs, v \in {"paths", "script"} :
         LET r == IF v = "paths" THEN get_downloads_folder(e)
                  ELSE script_get_downloads_folder(e)
         IN  dlCall' = [variant |-> v, env |-> e, kind |-> r.kind, exists |-> r.exists]
    /\ AppReset({"dl"})

\* ModelManager(model_type) or ModelManager(model_type, cache_dir)
AppModelManager ==
    /\ appPc = "idle"
    /\ \E t \in ModelTypes, given \in BOOLEAN : mgrCall' = ModelManager(t, given)
    /\ AppReset({"mgr"})

\* main(): single prompt: 'return 0 if output else 1'
AppMainPrompt ==
    /\ appPc = "idle"
    /\ appPc' = "ended"
    /\ \E seed \in AppSeeds : \E g \in generate_image(seed) :
         /\ engineSeed' = g.seed
         /\ appExit' = (CASE g.out = "saved" -> 0
                          [] g.out = "KeyboardInterrupt" -> 130
                          [] OTHER -> 1)
    /\ AppReset({"pc", "exit", "seed"})

\* main(): args.interactive: interactive_mode(settings)
AppInteractive ==
    /\ appPc = "idle"
    /\ appPc' = "loop"
    /\ AppReset({"pc"})

\* 'quit', 'exit' or 'q': break, the count is printed, main() returns 0
AppLoopQuit ==
    /\ appPc = "loop"
    /\ appPc' = "ended"
    /\ appEvent' = "quit"
    /\ appReported' = count
    /\ appExit' = 0
    /\ UNCHANGED <<count, appSucceeded, engineSeed, outCall, verCall, dlCall, mgrCall>>

\* an empty line: continue
AppLoopEmpty ==
    /\ appPc = "loop"
    /\ appEvent' = "empty"
    /\ UNCHANGED <<appPc, count, appSucceeded, appReported, appExit, engineSeed,
                   outCall, verCall, dlCall, mgrCall>>

\* any other line: 'output = generate_image(prompt, settings, seed=-1)'
AppLoopGenerate ==
    /\ appPc = "loop"
    /\ count < MaxCount
    /\ appEvent' = "prompt"
    /\ \E g \in generate_image(-1) :
         /\ engineSeed' = g.seed
         /\ CASE g.out = "KeyboardInterrupt" ->
                   \* 'except KeyboardInterrupt: break'
                   /\ appPc' = "ended"
                   /\ appReported' = count
                   /\ appExit' = 0
                   /\ UNCHANGED <<count, appSucceeded>>
              [] g.out = "saved" ->
                   /\ count' = count + 1
                   /\ appSucceeded' = appSucceeded + 1
                   /\ UNCHANGED <<appPc, appReported, appExit>>
              [] OTHER ->
                   \* None, or 'except Exception as e: print'
                   UNCHANGED <<appPc, count, appSucceeded, appReported, appExit>>
    /\ UNCHANGED <<outCall, verCall, dlCall, mgrCall>>

\* Prompt.ask raises KeyboardInterrupt: break
AppLoopInterrupt ==
    /\ appPc = "loop"
    /\ appPc' = "ended"
    /\ appEvent' = "KeyboardInterrupt"
    /\ appReported' = count
    /\ appExit' = 0
    /\ UNCHANGED <<count, appSucceeded, engineSeed, outCall, verCall, dlCall, mgrCall>>

\* Prompt.ask raises EOFError at the end of stdin: 'except Exception'
\* prints it and the loop goes on
AppLoopEOF ==
    /\ appPc = "loop"
    /\ appEvent' = "EOFError"
    /\ UNCHANGED <<appPc, count, appSucceeded, appReported, appExit, engineSeed,
                   outCall, verCall, dlCall, mgrCall>>

\* the process of app.py is gone
AppExit ==
    /\ appPc = "ended"
    /\ AppReset({})

(***************************************************************************)
(* generator.py: the life of one ZImageGenerator object.                   *)
(***************************************************************************)
\* constructions of the native model counted between two unloads
MaxBuilt == 2
\* prompts of one generate_batch() call
MaxBatch == 2

\* _load_model() when the model is not loaded:
\*   loaded        StableDiffusion was constructed, the flag set
\*   ctor_raises   the first print or the StableDiffusion constructor raised
\*   print_raises  '_sd = StableDiffusion(...)' was done, then the print of
\*                 the load time raised or the user interrupted
LoadKinds == {"loaded", "ctor_raises", "print_raises"}

\* _load_model(): the fields after it and whether it raised
load_model(s, loaded, b, kind) ==
    IF loaded THEN [sd |-> s, model_loaded |-> loaded, built |-> b, raised |-> FALSE]
    ELSE CASE kind = "ctor_raises" ->
                [sd |-> s, model_loaded |-> FALSE, built |-> b, raised |-> TRUE]
           [] kind = "print_raises" ->
                [sd |-> "model", model_loaded |-> FALSE, built |-> b + 1, raised |-> TRUE]
           [] OTHER ->
                [sd |-> "model", model_loaded |-> TRUE, built |-> b + 1, raised |-> FALSE]

\* how self._sd.generate_image ends inside generate(): an image, an empty
\* list (None is returned), or an exception turned into GenerationError
EngineResults == {"image", "None", "GenerationError"}

\* generate(): _load_model(), then the engine; one step for both
Generate(op) ==
    /\ model_loaded \/ built < MaxBuilt
    /\ \E kind \in LoadKinds, e \in EngineResults :
         LET l == load_model(sd, model_loaded, built, kind)
         IN  /\ sd' = l.sd
             /\ model_loaded' = l.model_loaded
             /\ built' = l.built
             /\ zLast' = [op |-> op, result |-> IF l.raised THEN "load raised" ELSE e]

InitZ ==
    /\ sd = "None"
    /\ model_loaded = FALSE
    /\ built = 0
    /\ inWith = FALSE
    /\ batchLeft = 0
    /\ zLast = [op |-> "__init__", result |-> "none"]

\* generator.generate(prompt)
ZGenerate ==
    /\ batchLeft = 0
    /\ Generate("generate")
    /\ UNCHANGED <<inWith, batchLeft>>

\* generator.generate_batch(prompts) starts
ZBatchStart ==
    /\ batchLeft = 0
    /\ \E n \in 1..MaxBatch : batchLeft' = n
    /\ UNCHANGED <<sd, model_loaded, built, inWith, zLast>>

\* generate_batch(): 'image = self.generate(prompt, **kwargs)' for the next
\* prompt; an exception ends the batch
ZBatchStep ==
    /\ batchLeft > 0
    /\ Generate("generate_batch")
    /\ batchLeft' = (IF zLast'.result \in {"load raised", "GenerationError"} THEN 0
                     ELSE batchLeft - 1)
    /\ UNCHANGED inWith

\* unload_model(): 'if self._sd is not None'
unload_model(op) ==
    /\ IF sd # "None"
       THEN sd' = "None" /\ model_loaded' = FALSE /\ built' = 0
       ELSE UNCHANGED <<sd, model_loaded, built>>
    /\ zLast' = [op |-> op, result |-> "none"]

\* generator.unload_model()
ZUnload ==
    /\ batchLeft = 0
    /\ unload_model("unload_model")
    /\ UNCHANGED <<inWith, batchLeft>>

\* 'with generator:' is entered
ZEnter ==
    /\ batchLeft = 0
    /\ ~inWith
    /\ inWith' = TRUE
    /\ zLast' = [op |-> "__enter__", result |-> "none"]
    /\ UNCHANGED <<sd, model_loaded, built, batchLeft>>

\* the 'with' block is left, by its end or by an exception: __exit__
ZExit ==
    /\ inWith
    /\ inWith' = FALSE
    /\ batchLeft' = 0
    /\ unload_model("__exit__")

Init == InitGen /\ InitMM /\ InitRun /\ InitApp /\ InitZ

Next ==
    \/ MainArgs("install") /\ MainInstall /\ UNCHANGED <<mmvars, appvars, zvars, lastGen, loopvars>>
    \/ (\E a \in ArchiveAssets : InstallArchive(a)) /\ UNCHANGED <<mmvars, appvars, zvars, runvars, loopvars>>
    \/ (\E a \in ModelAssets : InstallModel(a)) /\ UNCHANGED <<mmvars, appvars, zvars, runvars, loopvars>>
    \/ InstallFinish /\ UNCHANGED <<mmvars, appvars, zvars, runvars, loopvars>>
    \/ MainArgs("check") /\ MainCheck /\ UNCHANGED <<mmvars, appvars, zvars, lastGen, loopvars>>
    \/ ProcessExit /\ UNCHANGED <<mmvars, appvars, zvars>>

Spec == Init /\ [][Next]_vars

\* main() of generate.py generating, on an installation as install() and
\* its interruptions leave it
NextRun ==
    \/ MainArgs("generate") /\ MainGenerate /\ UNCHANGED <<mmvars, appvars, zvars, loopvars>>
    \/ MainArgs("interactive") /\ MainInteractive /\ UNCHANGED <<mmvars, appvars, zvars>>
    \/ LoopInputEnds /\ UNCHANGED <<mmvars, appvars, zvars>>
    \/ LoopContinue /\ UNCHANGED <<mmvars, appvars, zvars>>
    \/ LoopQuit /\ UNCHANGED <<mmvars, appvars, zvars>>
    \/ LoopCheck /\ UNCHANGED <<mmvars, appvars, zvars>>
    \/ LoopSize /\ UNCHANGED <<mmvars, appvars, zvars>>
    \/ FileRemoved /\ UNCHANGED <<mmvars, appvars, zvars>>
    \/ LoopGenerate /\ UNCHANGED <<mmvars, appvars, zvars>>
    \/ ProcessExit /\ UNCHANGED <<mmvars, appvars, zvars>>

InitSession == InitInstalled /\ InitMM /\ InitRun /\ InitApp /\ InitZ

SpecRun == InitSession /\ [][NextRun]_vars

\* the z_image_gen package: app.py, settings.py and verify() of model.py
NextApp ==
    \/ AppGetOutputPath /\ UNCHANGED <<genvars, mmvars, runvars, loopvars, zvars>>
    \/ AppVerify /\ UNCHANGED <<genvars, mmvars, runvars, loopvars, zvars>>
    \/ AppGetDownloadsFolder /\ UNCHANGED <<genvars, mmvars, runvars, loopvars, zvars>>
    \/ AppModelManager /\ UNCHANGED <<genvars, mmvars, runvars, loopvars, zvars>>
    \/ AppMainPrompt /\ UNCHANGED <<genvars, mmvars, runvars, loopvars, zvars>>
    \/ AppInteractive /\ UNCHANGED <<genvars, mmvars, runvars, loopvars, zvars>>
    \/ AppLoopQuit /\ UNCHANGED <<genvars, mmvars, runvars, loopvars, zvars>>
    \/ AppLoopEmpty /\ UNCHANGED <<genvars, mmvars, runvars, loopvars, zvars>>
    \/ AppLoopGenerate /\ UNCHANGED <<genvars, mmvars, runvars, loopvars, zvars>>
    \/ AppLoopInterrupt /\ UNCHANGED <<genvars, mmvars, runvars, loopvars, zvars>>
    \/ AppLoopEOF /\ UNCHANGED <<genvars, mmvars, runvars, loopvars, zvars>>
    \/ AppExit /\ UNCHANGED <<genvars, mmvars, runvars, loopvars, zvars>>

SpecApp == Init /\ [][NextApp]_vars

\* one ZImageGenerator object and its caller
NextZ ==
    \/ ZGenerate /\ UNCHANGED <<genvars, mmvars, runvars, loopvars, appvars>>
    \/ ZBatchStart /\ UNCHANGED <<genvars, mmvars, runvars, loopvars, appvars>>
    \/ ZBatchStep /\ UNCHANGED <<genvars, mmvars, runvars, loopvars, appvars>>
    \/ ZUnload /\ UNCHANGED <<genvars, mmvars, runvars, loopvars, appvars>>
    \/ ZEnter /\ UNCHANGED <<genvars, mmvars, runvars, loopvars, appvars>>
    \/ ZExit /\ UNCHANGED <<genvars, mmvars, runvars, loopvars, appvars>>

SpecZ == Init /\ [][NextZ]_vars

NextMM ==
    \/ MMDownload /\ UNCHANGED <<genvars, runvars, loopvars, appvars, zvars>>
    \/ MMGetModelPath /\ UNCHANGED <<genvars, runvars, loopvars, appvars, zvars>>
    \/ MMChunk /\ UNCHANGED <<genvars, runvars, loopvars, appvars, zvars>>
    \/ MMStreamError /\ UNCHANGED <<genvars, runvars, loopvars, appvars, zvars>>
    \/ MMMove /\ UNCHANGED <<genvars, runvars, loopvars, appvars, zvars>>
    \/ MMVerify /\ UNCHANGED <<genvars, runvars, loopvars, appvars, zvars>>
    \/ MMDelete /\ UNCHANGED <<genvars, runvars, loopvars, appvars, zvars>>

SpecMM == Init /\ [][NextMM]_vars

(***************************************************************************)
(* Claims.                                                                 *)
(***************************************************************************)
\* install() has returned True or False (it was not left by an exception)
InstallReturned == pc = "returned" /\ ret \in {"True", "False"}

\* C1 (SpecMM): when download() ends with an exception raised during the
\* transfer (request, opening or writing the temporary file, streaming,
\* interruption), the '.downloading' file does not exist and the file at
\* model_path is what it was before the call.
C1_FailedDownloadLeavesNoTemp ==
    (mmPc = "idle" /\ mmOp \in {"download", "get_model_path"}
        /\ mmExc # "none" /\ mmStage \in {"request", "open", "stream"})
    => (~Exists(mmTemp) /\ mmModel = mmBefore)

\* C2 (Spec): after a download_file call that failed or was interrupted
\* after receiving some bytes, no file exists at its destination path.
C2_FailedTransferLeavesNoFile ==
    (lastDl.ret \in {"False", "KeyboardInterrupt"} /\ lastDl.received > 0)
    => ~Exists(fs[lastDl.dest])

\* C3 (Spec): whenever install() has returned True, check_installation()
\* run on the files it left returns True.
C3_InstallTrueThenCheckTrue ==
    (pc = "returned" /\ ret = "True") => check_installation(fs, NoFault) = "True"

\* C4 (Spec): a model file that holds only part of its download is neither
\* skipped by install() as 'already exists' nor reported OK by
\* check_installation().
C4_PartialFileNeverValid ==
    \A a \in ModelAssets :
        Partial(fs[DestOf(a)])
        => (a \notin skipped /\ Probe(fs, DestOf(a), NoFault) # "OK")

\* C5 (Spec): in an install() that started when check_installation()
\* reported every asset present, no step issues an HTTP request or changes
\* a file.
C5_ValidInstallIsNoOp ==
    [][(startOK /\ pc \in Assets \cup {"verify"})
        => (requested' = requested /\ fs' = fs)]_vars

\* C6 (Spec): a model file of 500 bytes is reported present-and-valid by
\* none of check_installation(), is_downloaded() and verify().
C6_SmallFileInvalid ==
    \A p \in ModelPaths :
        (Exists(fs[p]) /\ fs[p].size = SmallSize)
        => /\ Probe(fs, p, NoFault) # "OK"
           /\ is_downloaded(fs[p], "none") # "True"
           /\ verify(fs[p], "none") # "True"

\* C7 (Spec): when install() has returned, every asset that comes after a
\* failed one in catalog order was processed in the same call.
C7_FailureDoesNotAbort ==
    InstallReturned
    => \A a \in failed : \A b \in Assets :
          IndexOf(b) > IndexOf(a) => b \in processed

\* C8 (Spec): install() returns True exactly when no asset failed, and
\* main() --install exits 0 only when no asset failed.
C8_ReturnReflectsFailures ==
    InstallReturned
    => /\ (ret = "True") <=> (failed = {})
       /\ exitcode = 0 => failed = {}

C10_VerificationNeverRaises ==
    /\ checkResult # "OSError"
    /\ \A p \in ModelPaths :
          Exists(fs[p])
          => /\ is_downloaded(fs[p], "stat_raises") # "OSError"
             /\ verify(fs[p], "stat_raises") # "OSError"

\* C16 (SpecMM): when download() has completed without error, the
\* temporary file does not exist and model_path holds the whole body that
\* was downloaded, whatever was there before; while the body is streamed
\* the file at model_path is the one from before the call.
C16_SuccessInstallsWholeFile ==
    /\ (mmPc = "idle" /\ mmStage = "done")
       => /\ mmExc = "none"
          /\ ~Exists(mmTemp)
          /\ mmModel = File(mmTotal, mmTotal)
    /\ mmPc = "streaming" => mmModel = mmBefore

\* download() has completed and replaced a different file at model_path
C16_Witness ==
    /\ mmPc = "idle" /\ mmStage = "done"
    /\ Exists(mmBefore) /\ mmBefore # mmModel

\* the calls made to progress_callback so far: one per written chunk,
\* 'downloaded' strictly increasing and ending at the bytes written
ProgressCallsFollowWrites ==
    /\ mmCb => Len(mmCalls) = mmWrites
    /\ \A i, j \in 1..Len(mmCalls) : i < j => mmCalls[i][1] < mmCalls[j][1]
    /\ mmCalls # <<>> => mmCalls[Len(mmCalls)][1] = mmDownloaded
    /\ mmPc = "streaming" => mmTemp.size = mmDownloaded
    /\ (mmPc = "idle" /\ mmStage = "done") => mmModel.size = mmDownloaded

C11_EngineSeedNonNegative ==
    engineSeed # NoEngine => engineSeed >= 0

\* C12 (SpecRun): when main() has run generate() for a single prompt and
\* sd-cli returned a non-zero code or wrote no output, generate() returned
\* False and the exit status is not 0, whatever was at the output path.
C12_FailedEngineReportedFailed ==
    (/\ pc = "returned" /\ Dispatch(args) = "generate"
     /\ lastGen.invoked /\ lastGen.raised = "none"
     /\ (lastGen.rc # 0 \/ ~lastGen.wrote))
    => (lastGen.ret = "False" /\ exitcode # 0)

\* C13 (SpecRun): a generate() call that ran sd-cli and returned reports
\* success exactly when the process was launched and came back and a file
\* is at output_path afterwards; with return_path=True the second value is
\* output_path on success and None on failure.
C13_SuccessIffOutputExists ==
    (lastGen.invoked /\ lastGen.ret # "KeyboardInterrupt")
    => /\ lastGen.ret \in {"True", "False"}
       /\ lastGen.ret = "True" <=> (lastGen.raised = "none" /\ lastGen.outAfter)
       /\ lastGen.raised = "Exception" => lastGen.ret = "False"
       /\ lastGen.path \in {"bare", "output_path", "None"}
       /\ lastGen.path # "bare"
            => (lastGen.path = "output_path" <=> lastGen.ret = "True")

\* the interactive loop got (True, output_path) from a generate() whose
\* sd-cli returned code 1 and left a file
C13_Witness ==
    /\ pc = "interactive"
    /\ lastGen.invoked /\ lastGen.rc = 1 /\ lastGen.wrote /\ ~lastGen.prior
    /\ lastGen.ret = "True" /\ lastGen.path = "output_path"
    /\ generated_count = 1

\* the name the claim expects for seed and timestamp
ExpectedName(seed, t) ==
    <<"z", "i", "m", "a", "g", "e", "_">> \o Str(seed) \o <<"_">> \o t \o PngSuffix

\* what C14 says of one call
NameHasSeedAndTimestamp ==
    /\ outCall.path = OutputDir \o <<ExpectedName(outCall.seed, outCall.timestamp)>>
    /\ Contains(PathName(outCall.path),
                <<"z", "i", "m", "a", "g", "e", "_">> \o Str(outCall.seed) \o <<"_">>)
    /\ PathSuffix(outCall.path) = PngSuffix

\* C14 as stated (SpecApp): for every seed >= 0 and every timestamp t,
\* get_output_path(seed, t) is output_dir joined with the one name
\* zimage_<seed>_<t>.png, which contains zimage_<seed>_ and has suffix .png.
C14_NameForEveryTimestamp ==
    (outCall # NoOut /\ outCall.seed >= 0) => NameHasSeedAndTimestamp

\* C14 amended (SpecApp): the same for every timestamp t without a path
\* separator.
C14_NameForPlainTimestamp ==
    (outCall # NoOut /\ outCall.seed >= 0 /\ "/" \notin Chars(outCall.timestamp))
    => NameHasSeedAndTimestamp

\* seed 42 with timestamp 20240101_000000 gave zimage_42_20240101_000000.png
C14_Witness ==
    /\ outCall.seed = 42
    /\ outCall.path = OutputDir \o
         << <<"z", "i", "m", "a", "g", "e", "_", "4", "2", "_",
              "2", "0", "2", "4", "0", "1", "0", "1", "_",
              "0", "0", "0", "0", "0", "0", ".", "p", "n", "g">> >>

\* C15 (SpecApp): verify() of a descriptor declaring sha256 H never
\* raises, and answers True exactly when the file exists and the
\* hexdigest of its content equals H.
C15_VerifyComparesDigest ==
    verCall # NoVer
    => /\ verCall.result \in {"True", "False"}
       /\ verCall.result = "True"
            <=> (verCall.file.exists
                 /\ hexdigest(ReadAll(HashInit, verCall.file.bytes)) = verCall.sha256)

\* an asset file that is there and holds its whole download
ValidFile(f) == Exists(f) /\ ~Partial(f)

\* C17 (Spec): main() started with --check ends at once, changes no file,
\* starts no download and no generation, and its exit status is 0 when
\* every required asset is valid and 1 otherwise.
C17_CheckExitsByValidity ==
    [][(pc = "idle" /\ pc' # "idle" /\ args'.check)
       => /\ pc' = "returned"
          /\ fs' = fs
          /\ requested' = {} /\ processed' = {}
          /\ lastGen' = NoGen
          /\ exitcode' = (IF \A p \in CheckedPaths : ValidFile(fs[p]) THEN 0 ELSE 1)]_vars

\* C18 (Spec): every step of install() starts at most one download, that
\* of the asset whose turn it is; when it starts, the steps of exactly the
\* earlier assets of the catalog have been executed and every archive
\* fetched before has been extracted.
C18_OneAtATimeInOrder ==
    [][\A a \in requested' \ requested :
          /\ requested' = requested \cup {a}
          /\ pc = a
          /\ processed = {b \in Assets : IndexOf(b) < IndexOf(a)}
          /\ requested \subseteq processed
          /\ fetched \subseteq extracted]_vars

\* one install() downloaded all five assets and returned True
C18_Witness ==
    /\ pc = "returned" /\ ret = "True"
    /\ requested = Assets /\ processed = Assets

\* C20 (SpecApp): the interactive loop of app.py is over once 'quit' was
\* read, stdin ended or the user interrupted, it is over for no other
\* reason, and the count printed at its end is the number of images saved.
C20_LoopEndsOnQuitOrInputEnd ==
    /\ appEvent \in {"quit", "EOFError", "KeyboardInterrupt"} => appPc # "loop"
    /\ (appPc = "ended" /\ appReported # NoCount)
         => appReported = appSucceeded

\* the step of the chain whose folder the claim expects for an environment
ExpectedFolder(v, e) ==
    IF v = "paths" /\ e.pd = "exists" THEN "platform"
    ELSE IF e.platform = "win32" /\ e.kf = "exists" THEN "known"
    ELSE IF e.home = "exists" /\ e.homeDl = "exists" THEN "home_downloads"
    ELSE "home"

\* C21 (SpecApp): get_downloads_folder() never raises, the path it returns
\* exists, and it is the first of: the platform's Downloads folder when
\* determined and existing, home / 'Downloads' when existing, home.
C21_DownloadsFolderAlwaysResolves ==
    dlCall.variant # "none"
    => /\ dlCall.kind \notin {"RuntimeError", "OSError"}
       /\ dlCall.exists
       /\ dlCall.kind = ExpectedFolder(dlCall.variant, dlCall.env)

\* C22 (SpecApp): ModelManager(model_type) selects the descriptor of a key
\* of MODELS, and for any other model_type raises the not-found error
\* before a directory is made or a request sent.
C22_UnknownKeyIsNotFound ==
    mgrCall.http # NoMgr.http
    => IF mgrCall.model_type \in ModelKeys
       THEN mgrCall.exc = "none" /\ mgrCall.info = MODELS[mgrCall.model_type]
       ELSE /\ mgrCall.exc = "ModelNotFoundError"
            /\ ~mgrCall.mkdir /\ mgrCall.http = 0

\* the 'size' lines whose argument parses: one 'x' with an integer on each
\* side
ParsingSizeLines ==
    {line \in LinesFor["size"] :
        LET arg   == lower(strip(SubSeq(strip(line), 6, Len(strip(line)))))
            parts == split(arg, "x")
        IN  Len(parts) = 2 /\ IsInt(parts[1]) /\ IsInt(parts[2])}

\* C24 (SpecRun): a 'size' command of the interactive loop of generate.py
\* whose argument does not parse changes neither width nor height, and
\* whenever one of them changes the command parsed and set both.
C24_SizeChangesBothOrNeither ==
    [][(pc = "interactive" /\ pc' = "interactive")
       => /\ lastLine' \in LinesFor["size"] \ ParsingSizeLines
               => (width' = width /\ height' = height)
          /\ (width' # width \/ height' # height)
               => (/\ lastLine' \in ParsingSizeLines
                   /\ <<width', height'>> = SizeCommand(strip(lastLine'), width, height))]_vars

\* C25 (SpecRun): generate() runs sd-cli only while the sd-cli executable
\* and the three model files exist; main() enters generate() or the
\* interactive loop only after check_installation() returned True, and
\* otherwise ends with exit status 1, no file changed, nothing downloaded.
C25_EngineOnlyWhenInstalled ==
    [][/\ (lastGen' # lastGen /\ lastGen'.invoked)
            => (find_sd_cli(fs) /\ \A p \in ModelPaths : Exists(fs[p]))
       /\ (pc = "idle" /\ pc' # "idle" /\ Dispatch(args') \in {"generate", "interactive"})
            => IF checkResult' = "True"
               THEN pc' = "interactive" \/ lastGen' # NoGen
               ELSE /\ pc' = "returned" /\ exitcode' = 1
                    /\ lastGen' = NoGen
                    /\ fs' = fs /\ requested' = {}]_vars

\* the gate of main() answered True and a generate() call of the
\* interactive loop ran sd-cli, all four files existing
C25_Witness ==
    /\ pc = "interactive"
    /\ lastGen.invoked
    /\ find_sd_cli(fs) /\ \A p \in ModelPaths : Exists(fs[p])
    /\ checkResult = "True"

\* C23 (SpecZ): whenever no method of the generator is running,
\* _model_loaded holds exactly when _sd is set, at most one native model
\* was constructed since the last unload, a generate() that got to the
\* engine has the model loaded, and after __exit__ the model is unloaded.
C23_LoadedIffModelSet ==
    /\ model_loaded <=> sd # "None"
    /\ built <= 1
    /\ (zLast.op \in {"generate", "generate_batch"} /\ zLast.result \in EngineResults)
         => model_loaded
    /\ zLast.op = "__exit__" => (sd = "None" /\ ~model_loaded)

====
